---- MODULE Spec2Model ----
(***************************************************************************)
(* Insider-trading scripts: the filing-search Extractor                    *)
(* (fetch_insider_trades / fetch_insider_trades_enhanced), the Momentum    *)
(* Analyzer (analyze_trade_momentum), the ticker sampling helpers and the  *)
(* credential handling of the four scripts.                                *)
(*                                                                         *)
(* JSON values are encoded as follows.  A scalar is a string; ABSENT marks *)
(* a key that is not in the object and None is JSON null / Python None.    *)
(* A nested object is a record with a field kind in {"absent", "null",     *)
(* "obj"} (key missing, value null, value an object) next to its fields.   *)
(***************************************************************************)
EXTENDS Integers, Sequences, FiniteSets, TLC

VARIABLES
    script,      \* which script's function is running
    vocabulary,  \* the module-level dict TRANSACTION_CODE_MEANINGS
    \* ---- Extractor ----
    outcome,     \* what the filing-search POST does: "transport_error", "http_error", "ok"
    response,    \* resp.json()["transactions"]: the FilingGroups of the response
    pc,          \* position in the fetch function
    resp,        \* "unbound" until requests.post has returned, then "bound"
    gi,          \* index of the next FilingGroup the for-loop visits
    records,     \* the rows / records list built so far
    result,      \* the returned DataFrame, as the sequence of its rows
    exc,         \* the exception that escaped the function, or "none"
    size,        \* the size argument the caller passed to the fetch function
    payload,     \* the request bodies handed to requests.post so far
    \* ---- Momentum Analyzer ----
    df,          \* the caller's DataFrame, as the sequence of its rows
    dfAtCall,    \* the rows of df when analyze_trade_momentum was called
    apc,         \* position in analyze_trade_momentum
    ri,          \* index of the next row the for-loop visits
    results,     \* the results list built so far
    hists,       \* per visited row: the price-history request and what came back
    output,      \* the returned DataFrame, as the sequence of its rows
    \* ---- Ticker sampling ----
    sample_size, \* the argument of get_random_mega_caps / get_random_small_caps
    listedNow,   \* the tickers for which is_listed answers True
    spc,         \* position in the sampling code
    sample,      \* the list the sampling function returned
    listed,      \* return_post's `listed`: the sampled tickers that are listed
    \* ---- Credential ----
    environ,     \* the process environment
    API_KEY,     \* the module global API_KEY
    cpc,         \* position in the script
    netLog       \* the network requests issued so far

evars == <<outcome, response, pc, resp, gi, records, result, exc, size, payload>>

avars == <<df, dfAtCall, apc, ri, results, hists, output>>

svars == <<sample_size, listedNow, spc, sample, listed>>

cvars == <<environ, API_KEY, cpc, netLog>>

vars == <<script, vocabulary, evars, avars, svars, cvars>>

--------------------------------------------------------------------------
(* Bounds of the model *)

MaxGroups == 2   \* FilingGroups per response
MaxTx == 2       \* transactions per sub-table
MaxRows == 2     \* rows of the DataFrame handed to analyze_trade_momentum
PoolLen == 4     \* tickers of each candidate pool that are modelled

--------------------------------------------------------------------------
(* Python / JSON helpers *)

ABSENT == "<absent>"
None == "None"

\* d.get(key) for a scalar field: a missing key reads as None
Get(v) == IF v = ABSENT THEN None ELSE v

\* d.get(key, dflt) for an object field: the default replaces only a MISSING key
GetDefault(slot, dflt) == IF slot.kind = "absent" THEN dflt ELSE slot

\* `x or dflt` for an object: None is falsy
OrDefault(v, dflt) == IF v.kind = "null" THEN dflt ELSE v

\* `x or dflt` for a string: None and "" are falsy
OrString(v, dflt) == IF v = None \/ v = "" THEN dflt ELSE v

\* None.get(...) raises AttributeError
IsNone(v) == v.kind = "null"

\* the objects that stand for {} and []
EmptyIssuer == [kind |-> "obj", tradingSymbol |-> ABSENT]
EmptyRelationship == [kind |-> "obj", officerTitle |-> ABSENT, otherText |-> ABSENT]
EmptyOwner == [kind |-> "obj", relationship |-> [kind |-> "absent", officerTitle |-> ABSENT, otherText |-> ABSENT]]
EmptyList == [kind |-> "list", items |-> <<>>]
EmptyTable == [kind |-> "obj", transactions |-> [kind |-> "absent", items |-> <<>>]]
EmptyCoding == [kind |-> "obj", code |-> ABSENT, equitySwapInvolved |-> ABSENT]
EmptyAmounts == [kind |-> "obj", shares |-> ABSENT, pricePerShare |-> ABSENT]
EmptyPost == [kind |-> "obj", sharesOwnedFollowingTransaction |-> ABSENT]

\* "; ".join(texts)
RECURSIVE Join(_)
Join(texts) ==
    IF texts = <<>> THEN ""
    ELSE IF Len(texts) = 1 THEN texts[1]
    ELSE texts[1] \o "; " \o Join(Tail(texts))

RECURSIVE Concat(_)
Concat(seqs) == IF seqs = <<>> THEN <<>> ELSE Head(seqs) \o Concat(Tail(seqs))

--------------------------------------------------------------------------
(* Transaction-code vocabulary *)

CodeKeys == {"P", "S", "A", "D", "F", "M", "G", "V", "J", "K", "L", "U"}

TRANSACTION_CODE_MEANINGS ==
    [c \in CodeKeys |->
        CASE c = "P" -> "Purchase"
          [] c = "S" -> "Sale"
          [] c = "A" -> "Grant/Award"
          [] c = "D" -> "Disposition"
          [] c = "F" -> "Payment"
          [] c = "M" -> "Conversion/Exercise"
          [] c = "G" -> "Gift"
          [] c = "V" -> "Voluntary"
          [] c = "J" -> "Other"
          [] c = "K" -> "Equity Swap"
          [] c = "L" -> "Small Acquisition"
          [] c = "U" -> "Tender"]

\* TRANSACTION_CODE_MEANINGS.get(code, "Unknown")
\* faulty variant: the lookup has no default, an unlisted code reads as None
CodeMeaning_NoDefault(code) ==
    IF code \in DOMAIN vocabulary THEN vocabulary[code] ELSE None

CodeMeaning(code) ==
    IF code \in DOMAIN vocabulary THEN vocabulary[code] ELSE "Unknown"

--------------------------------------------------------------------------
(* The Extractor: fetch_insider_trades (deep_dive_into_return_post_insider_trade.py,
   return_post_insider_trading.py) *)

Scripts == {"deep_dive", "return_post", "Api_test", "expanded_list"}
BasicScripts == {"deep_dive", "return_post"}
Query == <<"issuer.tradingSymbol", "TSLA">>

\* query.split(':')[-1]
SplitLast(query) == query[Len(query)]

\* grp.get(table_name, {}).get("transactions", []) or []
TableTransactions(slot) ==
    OrDefault(GetDefault(GetDefault(slot, EmptyTable).transactions, EmptyList), EmptyList).items

\* the record one transaction becomes (the dict literal of rows.append)
BasicRecord(grp, tx, query) ==
    LET code == Get(GetDefault(tx.coding, EmptyCoding).code)
        amounts == GetDefault(tx.amounts, EmptyAmounts)
    IN  [ticker |-> OrString(Get(GetDefault(grp.issuer, EmptyIssuer).tradingSymbol), SplitLast(query)),
         transactionDate |-> Get(tx.transactionDate),
         transactionCode |-> code,
         transactionDesc |-> CodeMeaning(code),
         shares |-> Get(amounts.shares),
         pricePerShare |-> Get(amounts.pricePerShare),
         officerTitle |->
            Get(GetDefault(GetDefault(grp.reportingOwner, EmptyOwner).relationship,
                           EmptyRelationship).officerTitle)]

\* building the record calls .get on None: AttributeError
BasicTxRaises(grp, tx) ==
    \/ IsNone(tx.coding)
    \/ IsNone(tx.amounts)
    \/ IsNone(grp.reportingOwner)
    \/ IsNone(GetDefault(grp.reportingOwner, EmptyOwner).relationship)

\* the two sub-tables in the order the loop visits them
BasicTableNames == <<"nonDerivativeTable", "derivativeTable">>

\* one iteration of `for grp in transactions` raises
BasicGroupRaises(grp) ==
    \/ IsNone(grp.issuer)
    \/ \E n \in 1..Len(BasicTableNames) :
          /\ \A m \in 1..(n - 1) : ~IsNone(grp[BasicTableNames[m]])
          /\ \/ IsNone(grp[BasicTableNames[n]])
             \/ \E j \in 1..Len(TableTransactions(grp[BasicTableNames[n]])) :
                   BasicTxRaises(grp, TableTransactions(grp[BasicTableNames[n]])[j])

\* the rows one iteration of `for grp in transactions` appends
BasicGroupRows(grp, query) ==
    Concat([n \in 1..Len(BasicTableNames) |->
               [j \in 1..Len(TableTransactions(grp[BasicTableNames[n]])) |->
                   BasicRecord(grp, TableTransactions(grp[BasicTableNames[n]])[j], query)]])

--------------------------------------------------------------------------
(* The Extractor: fetch_insider_trades_enhanced (Api_test.py,
   api_test_expanded_list.py) *)

\* "; ".join(fn.get("text", "") for fn in grp.get("footnotes", []) or [])
FootnotesText(grp) ==
    LET fns == OrDefault(GetDefault(grp.footnotes, EmptyList), EmptyList).items
    IN  Join([k \in 1..Len(fns) |-> IF fns[k].text = ABSENT THEN "" ELSE fns[k].text])

\* rel = grp.get("reportingOwner", {}).get("relationship", {}) or {}
Relationship(grp) ==
    OrDefault(GetDefault(GetDefault(grp.reportingOwner, EmptyOwner).relationship,
                         EmptyRelationship), EmptyRelationship)

\* extract(tx, category)
extract(grp, tx, category) ==
    LET coding == OrDefault(GetDefault(tx.coding, EmptyCoding), EmptyCoding)
        amounts == OrDefault(GetDefault(tx.amounts, EmptyAmounts), EmptyAmounts)
        post == OrDefault(GetDefault(tx.postTransactionAmounts, EmptyPost), EmptyPost)
    IN  [documentType |-> Get(grp.documentType),
         footnotes |-> FootnotesText(grp),
         remarks |-> Get(grp.remarks),
         officerTitle |-> Get(Relationship(grp).officerTitle),
         otherText |-> Get(Relationship(grp).otherText),
         transactionCategory |-> category,
         securityTitle |-> Get(tx.securityTitle),
         transactionDate |-> Get(tx.transactionDate),
         transactionCode |-> Get(coding.code),
         equitySwapInvolved |-> Get(coding.equitySwapInvolved),
         shares |-> Get(amounts.shares),
         pricePerShare |-> Get(amounts.pricePerShare),
         sharesOwnedFollowingTransaction |-> Get(post.sharesOwnedFollowingTransaction)]

\* one iteration of `for grp in tx_groups` raises AttributeError
EnhancedGroupRaises(grp) ==
    \/ IsNone(grp.reportingOwner)
    \/ IsNone(grp.nonDerivativeTable)
    \/ IsNone(grp.derivativeTable)

\* faulty variant: the derivative sub-table is read before the non-derivative one
EnhancedGroupRows_DerivativeFirst(grp) ==
    [j \in 1..Len(TableTransactions(grp.derivativeTable)) |->
        extract(grp, TableTransactions(grp.derivativeTable)[j], "derivative")]
    \o
    [j \in 1..Len(TableTransactions(grp.nonDerivativeTable)) |->
        extract(grp, TableTransactions(grp.nonDerivativeTable)[j], "nonDerivative")]

\* the records one iteration of `for grp in tx_groups` appends
EnhancedGroupRows(grp) ==
    [j \in 1..Len(TableTransactions(grp.nonDerivativeTable)) |->
        extract(grp, TableTransactions(grp.nonDerivativeTable)[j], "nonDerivative")]
    \o
    [j \in 1..Len(TableTransactions(grp.derivativeTable)) |->
        extract(grp, TableTransactions(grp.derivativeTable)[j], "derivative")]

GroupRaises(s, grp) ==
    IF s \in BasicScripts THEN BasicGroupRaises(grp) ELSE EnhancedGroupRaises(grp)

GroupRows(s, grp, query) ==
    IF s \in BasicScripts THEN BasicGroupRows(grp, query) ELSE EnhancedGroupRows(grp)

--------------------------------------------------------------------------
(* The filing-search responses the Extractor is run on *)

Cluster(k, rec) == [f \in {"kind"} \cup DOMAIN rec |-> IF f = "kind" THEN k ELSE IF k = "obj" THEN rec[f] ELSE ABSENT]

\* a RawTransaction whose coding / amounts / postTransactionAmounts are of kind k
Tx(title, date, code, shares, k) ==
    [securityTitle |-> title,
     transactionDate |-> date,
     coding |-> Cluster(k, [code |-> code, equitySwapInvolved |-> "false"]),
     amounts |-> Cluster(k, [shares |-> shares, pricePerShare |-> "10.5"]),
     postTransactionAmounts |-> Cluster(k, [sharesOwnedFollowingTransaction |-> "1000"])]

Dates == <<"2024-01-02", "2024-01-03", "2024-01-04", "2024-01-05">>
Codes == <<"P", "Z", "S", "M">>

\* the i-th transaction of a non-derivative and of a derivative sub-table
NDTx(i) == Tx("Common Stock", Dates[((i - 1) % Len(Dates)) + 1], Codes[((i - 1) % Len(Codes)) + 1], "100", "obj")
DTx(i) == Tx("Stock Option", Dates[((i - 1) % Len(Dates)) + 1], Codes[(i % Len(Codes)) + 1], "200", "obj")

\* transactions without their nested clusters
SparseTxs ==
    { Tx(ABSENT, "2024-01-04", ABSENT, ABSENT, "absent"),
      Tx("Common Stock", ABSENT, ABSENT, ABSENT, "null") }

Table(k, tk, items) == [kind |-> k, transactions |-> [kind |-> tk, items |-> items]]

\* a sub-table with no transactions: key missing, null, {}, {"transactions": null}
BlankTables ==
    { Table("absent", "absent", <<>>), Table("null", "absent", <<>>),
      Table("obj", "absent", <<>>), Table("obj", "null", <<>>) }

NDTable(n) == Table("obj", "list", [i \in 1..n |-> NDTx(i)])
DTable(m) == Table("obj", "list", [i \in 1..m |-> DTx(i)])

Issuer(k, sym) == [kind |-> k, tradingSymbol |-> sym]

Owner(k, rk, title) ==
    [kind |-> k,
     relationship |-> [kind |-> rk, officerTitle |-> title,
                       otherText |-> IF title = "CEO" THEN "Founder" ELSE ABSENT]]

Footnotes(k, items) == [kind |-> k, items |-> items]

Group(doc, fk, fns, issuer, owner, nd, d) ==
    [documentType |-> doc, footnotes |-> Footnotes(fk, fns), remarks |-> doc,
     issuer |-> issuer, reportingOwner |-> owner,
     nonDerivativeTable |-> nd, derivativeTable |-> d]

FullGroup(nd, d) ==
    Group("4", "absent", <<>>, Issuer("obj", "AAPL"), Owner("obj", "obj", "CFO"), nd, d)

\* FilingGroups: the metadata varies over one-transaction tables; under full
\* metadata the sub-tables vary in kind, in length and in the clusters of
\* their transactions
GroupSet ==
    { Group("4", "list", <<[text |-> "f1"], [text |-> ABSENT], [text |-> "f2"]>>,
            Issuer("obj", "MSFT"), Owner("obj", "obj", "CEO"), NDTable(1), DTable(1)),
      Group(ABSENT, "absent", <<>>, Issuer("absent", ABSENT), Owner("absent", "absent", ABSENT),
            NDTable(1), DTable(1)),
      Group(None, "null", <<>>, Issuer("obj", None), Owner("obj", "null", ABSENT),
            NDTable(1), DTable(1)),
      Group("4/A", "list", <<>>, Issuer("null", ABSENT), Owner("obj", "absent", ABSENT),
            NDTable(1), DTable(1)),
      Group("4", "absent", <<>>, Issuer("obj", ""), Owner("null", "absent", ABSENT),
            NDTable(1), DTable(1)) }
    \cup {FullGroup(t, DTable(1)) : t \in BlankTables}
    \cup {FullGroup(NDTable(1), t) : t \in BlankTables}
    \cup {FullGroup(NDTable(n), DTable(m)) : n, m \in 0..MaxTx}
    \cup {FullGroup(Table("obj", "list", <<t>>), DTable(0)) : t \in SparseTxs}

Responses == UNION {[1..n -> GroupSet] : n \in 0..MaxGroups}

--------------------------------------------------------------------------
(* The fetch function, step by step *)

SamplingIdle ==
    /\ sample_size = 0 /\ listedNow = {} /\ spc = "idle" /\ sample = <<>> /\ listed = <<>>

CredentialIdle ==
    /\ environ = [API_KEY |-> "<unset>", SEC_API_KEY |-> "<unset>"]
    /\ API_KEY = "<unset>" /\ cpc = "idle" /\ netLog = <<>>

AnalyzerIdle ==
    /\ df = <<>> /\ dfAtCall = <<>> /\ apc = "idle" /\ ri = 1
    /\ results = <<>> /\ hists = <<>> /\ output = <<>>

\* size = min(size, 50)
SizeLimit == 50

\* the size the script's main block passes to its fetch function
EnhancedMainSize == 5
MainSize(s) == IF s \in BasicScripts THEN SizeLimit ELSE EnhancedMainSize

Min(a, b) == IF a < b THEN a ELSE b

\* payload = {"query": query, "from": 0, "size": size, "sort": [...]}:
\* fetch_insider_trades rebinds size to min(size, 50) first,
\* fetch_insider_trades_enhanced sends the argument as it came
Payload(s, query, sz) ==
    [query |-> query,
     from  |-> 0,
     size  |-> IF s \in BasicScripts THEN Min(sz, SizeLimit) ELSE sz,
     sort  |-> <<[filedAt |-> [order |-> "desc"]]>>]

ExtractInit ==
    /\ script \in Scripts
    /\ vocabulary = TRANSACTION_CODE_MEANINGS
    /\ \/ outcome \in {"transport_error", "http_error"} /\ response = <<>>
       \/ outcome = "ok" /\ response \in Responses
    /\ pc = "start"
    /\ resp = "unbound"
    /\ gi = 1
    /\ records = <<>>
    /\ result = <<>>
    /\ exc = "none"
    /\ size = MainSize(script)
    /\ payload = <<>>
    /\ AnalyzerIdle /\ SamplingIdle /\ CredentialIdle

\* requests.post(...): it returns a response object, or raises a transport
\* error.  fetch_insider_trades calls it inside its try block,
\* fetch_insider_trades_enhanced before its try block.
Post ==
    /\ pc = "start"
    /\ IF outcome = "transport_error"
       THEN IF script \in BasicScripts
            THEN pc' = "except" /\ exc' = exc
            ELSE pc' = "raised" /\ exc' = "ConnectionError"
       ELSE pc' = "status" /\ exc' = exc
    /\ resp' = IF outcome = "transport_error" THEN "unbound" ELSE "bound"
    /\ payload' = Append(payload, Payload(script, Query, size))
    /\ UNCHANGED <<script, vocabulary, outcome, response, gi, records, result, size, avars, svars, cvars>>

\* resp.raise_for_status() in the try block
RaiseForStatus ==
    /\ pc = "status"
    /\ IF outcome = "http_error"
       THEN IF script \in BasicScripts
            THEN pc' = "except" /\ result' = result
            ELSE pc' = "returned" /\ result' = <<>>     \* except requests.HTTPError
       ELSE pc' = "parse" /\ result' = result
    /\ UNCHANGED <<script, vocabulary, outcome, response, resp, gi, records, exc, size, payload, avars, svars, cvars>>

\* `except Exception as e:` of fetch_insider_trades: the message it prints
\* reads the local resp, and then it returns pd.DataFrame()
ExceptHandler ==
    /\ pc = "except"
    /\ IF resp = "unbound"
       THEN pc' = "raised" /\ exc' = "UnboundLocalError" /\ result' = result
       ELSE pc' = "returned" /\ exc' = exc /\ result' = <<>>
    /\ UNCHANGED <<script, vocabulary, outcome, response, resp, gi, records, size, payload, avars, svars, cvars>>

\* one iteration of the loop over the FilingGroups
ExtractGroup ==
    /\ pc = "parse"
    /\ gi <= Len(response)
    /\ IF GroupRaises(script, response[gi])
       THEN pc' = "raised" /\ exc' = "AttributeError" /\ UNCHANGED <<gi, records>>
       ELSE /\ records' = records \o GroupRows(script, response[gi], Query)
            /\ gi' = gi + 1
            /\ UNCHANGED <<pc, exc>>
    /\ UNCHANGED <<script, vocabulary, outcome, response, resp, result, size, payload, avars, svars, cvars>>

\* return pd.DataFrame(records)
ReturnFrame ==
    /\ pc = "parse"
    /\ gi > Len(response)
    /\ pc' = "returned"
    /\ result' = records
    /\ UNCHANGED <<script, vocabulary, outcome, response, resp, gi, records, exc, size, payload, avars, svars, cvars>>

ExtractNext == Post \/ RaiseForStatus \/ ExceptHandler \/ ExtractGroup \/ ReturnFrame

Init == ExtractInit

Next == ExtractNext

Spec == Init /\ [][Next]_vars

--------------------------------------------------------------------------
(* Claims about the Extractor *)

Finished == pc \in {"returned", "raised"}

\* the number of transactions a sub-table lists: none when the sub-table or
\* its transactions list is missing, null or empty
TxCount(table) ==
    IF table.kind = "obj" /\ table.transactions.kind = "list"
    THEN Len(table.transactions.items) ELSE 0

RECURSIVE SumCounts(_)
SumCounts(groups) ==
    IF groups = <<>> THEN 0
    ELSE TxCount(Head(groups).nonDerivativeTable) + TxCount(Head(groups).derivativeTable)
         + SumCounts(Tail(groups))

\* nothing of the group is missing except, possibly, its sub-tables
OnlyTablesMissing(grp) ==
    /\ grp.issuer.kind = "obj"
    /\ grp.reportingOwner.kind = "obj"
    /\ grp.reportingOwner.relationship.kind = "obj"
    /\ \A t \in {grp.nonDerivativeTable, grp.derivativeTable} :
          \A j \in 1..TxCount(t) :
             LET tx == t.transactions.items[j]
             IN  tx.coding.kind = "obj" /\ tx.amounts.kind = "obj"
                 /\ tx.postTransactionAmounts.kind = "obj"

\* C1: for a response of N FilingGroups with n_i non-derivative and m_i
\* derivative transactions the Extractor returns exactly the sum of
\* (n_i + m_i) records, and a FilingGroup whose sub-tables are empty or
\* missing contributes none and does not make the extraction fail.  Stated
\* for the responses that lack nothing but sub-tables.
C1_RecordCount ==
    (outcome = "ok" /\ Finished /\ \A g \in 1..Len(response) : OnlyTablesMissing(response[g]))
        => (pc = "returned" /\ Len(result) = SumCounts(response))

\* C2: when the filing-search call fails, by a non-2xx status or by a
\* transport exception of the POST, the Extractor returns an empty result,
\* has built no record, and lets no exception escape.
C2_FailureGivesEmptyResult ==
    (outcome \in {"http_error", "transport_error"} /\ Finished)
        => (pc = "returned" /\ result = <<>> /\ records = <<>> /\ exc = "none")

\* where each record of the output comes from: FilingGroups in the order of
\* the response, within a group the non-derivative before the derivative
\* transactions, each sub-table in its own order
GroupSources(grp, g) ==
    [j \in 1..TxCount(grp.nonDerivativeTable) |-> [g |-> g, table |-> "nonDerivativeTable", j |-> j]]
    \o [j \in 1..TxCount(grp.derivativeTable) |-> [g |-> g, table |-> "derivativeTable", j |-> j]]

RECURSIVE SourcesFrom(_, _)
SourcesFrom(groups, g) ==
    IF g > Len(groups) THEN <<>>
    ELSE GroupSources(groups[g], g) \o SourcesFrom(groups, g + 1)

Sources(groups) == SourcesFrom(groups, 1)

SourceTx(groups, src) == groups[src.g][src.table].transactions.items[src.j]

\* the fields of a record by which its transaction and its group are told apart
Mark(rec) == <<rec.transactionDate, rec.transactionCode, rec.shares, rec.officerTitle>>

SourceMark(groups, src) ==
    LET tx == SourceTx(groups, src)
        own == groups[src.g].reportingOwner
    IN  <<Get(tx.transactionDate),
          IF tx.coding.kind = "obj" THEN Get(tx.coding.code) ELSE None,
          IF tx.amounts.kind = "obj" THEN Get(tx.amounts.shares) ELSE None,
          IF own.kind = "obj" /\ own.relationship.kind = "obj"
          THEN Get(own.relationship.officerTitle) ELSE None>>

\* C6: extraction never fails on missing nested data: with the issuer, the
\* reporting-owner relationship, a sub-table or a coding / amounts /
\* post-holdings cluster absent (key missing or null), the Extractor still
\* completes and emits every record, the fields of an absent object null.
C6_MissingDataNeverFails ==
    (outcome = "ok" /\ Finished)
        => /\ pc = "returned"
           /\ exc = "none"
           /\ Len(result) = Len(Sources(response))
           /\ \A p \in 1..Len(result) : Mark(result[p]) = SourceMark(response, Sources(response)[p])

\* C7: the output preserves order: records grouped by FilingGroup in the
\* order of the response, within each FilingGroup the non-derivative before
\* the derivative transactions, each sub-table in the order it is listed.
C7_OrderPreserved ==
    (outcome = "ok" /\ pc = "returned")
        => /\ Len(result) = Len(Sources(response))
           /\ \A p \in 1..Len(result) : Mark(result[p]) = SourceMark(response, Sources(response)[p])
           /\ script \notin BasicScripts =>
                 \A p \in 1..Len(result) :
                    result[p].transactionCategory =
                        (IF Sources(response)[p].table = "nonDerivativeTable"
                         THEN "nonDerivative" ELSE "derivative")

\* a returned extraction of two different FilingGroups, the first with two
\* non-derivative transactions and a derivative one
C7_Witness ==
    /\ outcome = "ok" /\ pc = "returned"
    /\ Len(response) = 2
    /\ response[1] # response[2]
    /\ TxCount(response[1].nonDerivativeTable) >= 2
    /\ TxCount(response[1].derivativeTable) >= 1
    /\ TxCount(response[2].nonDerivativeTable) >= 1
    /\ Len(result) >= 4
    /\ \A a, b \in 1..3 : a # b => Mark(result[a]) # Mark(result[b])

--------------------------------------------------------------------------
(* The Momentum Analyzer: analyze_trade_momentum, with a window of days
   (deep_dive_into_return_post_insider_trade.py) or of hours
   (return_post_insider_trading.py).

   A point in time is [type, day, sec, aware, off]: type "str" is the text the
   Extractor delivers, "ts" a pandas Timestamp, "date" a datetime.date and
   "NaT" the missing timestamp; day counts the days of 2024 (day 2 is
   2024-01-02), sec the seconds of the wall clock since midnight; aware says
   whether it carries a UTC offset and off is that offset in seconds.
   A number is [na, num, den]: pd.NA, or the quotient num / den.  Closing
   prices are in cents. *)

SecondsPerHour == 3600
SecondsPerDay == 24 * SecondsPerHour
days_after == 30
hours_after == 48

Time(type, day, sec, aware, off) ==
    [type |-> type, day |-> day, sec |-> sec, aware |-> aware, off |-> off]

NaT == Time("NaT", 0, 0, FALSE, 0)
NA == [na |-> TRUE, num |-> 0, den |-> 1]
Number(num, den) == [na |-> FALSE, num |-> num, den |-> den]

\* the wall-clock seconds of a point in time
WallSeconds(t) == t.day * SecondsPerDay + t.sec

FromSeconds(n) == Time("ts", n \div SecondsPerDay, n % SecondsPerDay, FALSE, 0)

\* pd.to_datetime: the text becomes a Timestamp, offset kept
to_datetime(t) == [t EXCEPT !.type = "ts"]

\* .dt.date / .date(): the calendar date of the wall clock
date(t) == Time("date", t.day, 0, FALSE, 0)

\* if ts.tzinfo is not None: ts.tz_convert(None).tz_localize(None)
\* (the instant in UTC, without an offset)
Naive(t) == IF t.aware THEN FromSeconds(WallSeconds(t) - t.off) ELSE t

\* faulty variant: the new fields replace the record instead of extending it
Update_Replaces(record, new) == new

\* record.update(new): dict.update
Update(record, new) == new @@ record

\* closes.iloc[0], closes.iloc[-1]
First(closes) == closes[1]
Last(closes) == closes[Len(closes)]

\* closes = hist["Close"], or the empty pd.Series() of the except clause
Closes(hist) == IF hist.kind = "raise" THEN <<>> ELSE hist.closes

\* faulty variant: the change is divided by the last close
Return_OverLater(closes) == Number(Last(closes).close - First(closes).close, Last(closes).close)

\* ret = (later - initial) / initial
Return(closes) == Number(Last(closes).close - First(closes).close, First(closes).close)

\* df["transactionDate"] = pd.to_datetime(df["transactionDate"]).dt.date   (days)
\* df["transactionDate"] = pd.to_datetime(df["transactionDate"])           (hours)
ParseColumn(s, frame) ==
    [i \in 1..Len(frame) |->
        [frame[i] EXCEPT !.transactionDate =
            IF s = "deep_dive" THEN date(to_datetime(@)) ELSE to_datetime(@)]]

\* the price-history request of one row
HistoryRequest(s, row) ==
    IF s = "deep_dive"
    THEN [ticker |-> row.ticker, start |-> row.transactionDate,
          end |-> [row.transactionDate EXCEPT !.day = @ + days_after], interval |-> "1d"]
    ELSE [ticker |-> row.ticker, start |-> Naive(row.transactionDate),
          end |-> FromSeconds(WallSeconds(Naive(row.transactionDate))
                              + hours_after * SecondsPerHour),
          interval |-> "1h"]

\* faulty variant: without prices the return is reported as 0 instead of pd.NA
DaysRecord_ZeroReturn(row, hist) ==
    LET closes == Closes(hist)
        trade_date == row.transactionDate
    IN  IF Len(closes) >= 1
        THEN Update(row, [return |-> Return(closes),
                          realizedDate |-> date(Last(closes).ts),
                          daysDiff |-> Number(date(Last(closes).ts).day - trade_date.day, 1)])
        ELSE Update(row, [return |-> Number(0, 1), realizedDate |-> NaT, daysDiff |-> NA])

\* the body of the loop of the day-window variant, after the history call
DaysRecord(row, hist) ==
    LET closes == Closes(hist)
        trade_date == row.transactionDate
    IN  IF Len(closes) >= 1
        THEN Update(row, [return |-> Return(closes),
                          realizedDate |-> date(Last(closes).ts),
                          daysDiff |-> Number(date(Last(closes).ts).day - trade_date.day, 1)])
        ELSE Update(row, [return |-> NA, realizedDate |-> NaT, daysDiff |-> NA])

\* the body of the loop of the hour-window variant, after the history call
HoursRecord(row, hist) ==
    LET closes == Closes(hist)
        trade_dt == Naive(row.transactionDate)
    IN  IF closes # <<>>
        THEN LET realized_ts == Naive(Last(closes).ts)
             IN  Update(row, [return |-> Return(closes),
                              realizedDate |-> realized_ts,
                              hoursDiff |-> Number(WallSeconds(realized_ts) - WallSeconds(trade_dt),
                                                   SecondsPerHour)])
        ELSE Update(row, [return |-> NA, realizedDate |-> NaT, hoursDiff |-> NA])

RowRecord(s, row, hist) ==
    IF s = "deep_dive" THEN DaysRecord(row, hist) ELSE HoursRecord(row, hist)

--------------------------------------------------------------------------
(* The frames analyze_trade_momentum is run on, and what the price-history
   collaborator may answer *)

NewYork == 0 - 5 * SecondsPerHour

TransactionDates ==
    { Time("str", 2, 0, FALSE, 0),                        \* "2024-01-02"
      Time("str", 2, 10 * SecondsPerHour, TRUE, NewYork) }   \* "2024-01-02T10:00:00-05:00"

TradeRecord(ticker, when) ==
    [ticker |-> ticker, transactionDate |-> when,
     transactionCode |-> IF ticker = "ABC" THEN "P" ELSE "S",
     transactionDesc |-> IF ticker = "ABC" THEN "Purchase" ELSE "Sale",
     shares |-> "100", pricePerShare |-> "10.5", officerTitle |-> "CFO"]

TradeRecords == {TradeRecord(t, w) : t \in {"ABC", "XYZ"}, w \in TransactionDates}

Frames == UNION {[1..n -> TradeRecords] : n \in 0..MaxRows}

Obs(day, sec, aware, off, close) == [ts |-> Time("ts", day, sec, aware, off), close |-> close]

Histories ==
    { [kind |-> "raise", closes |-> <<>>],
      [kind |-> "data", closes |-> <<>>],
      [kind |-> "data", closes |-> <<Obs(2, 0, TRUE, NewYork, 10000), Obs(15, 0, TRUE, NewYork, 11000)>>],
      [kind |-> "data", closes |-> <<Obs(3, 21 * SecondsPerHour, TRUE, NewYork, 10500)>>],
      [kind |-> "data", closes |-> <<Obs(2, 10 * SecondsPerHour, FALSE, 0, 10000),
                                      Obs(2, 11 * SecondsPerHour, FALSE, 0, 12000),
                                      Obs(3, 10 * SecondsPerHour, FALSE, 0, 9000)>>] }

ExtractorIdle ==
    /\ outcome = "ok" /\ response = <<>> /\ pc = "idle" /\ resp = "unbound"
    /\ gi = 1 /\ records = <<>> /\ result = <<>> /\ exc = "none"
    /\ size = SizeLimit /\ payload = <<>>

AnalyzeInit ==
    /\ script \in BasicScripts
    /\ vocabulary = TRANSACTION_CODE_MEANINGS
    /\ df \in Frames
    /\ dfAtCall = df
    /\ apc = "call"
    /\ ri = 1
    /\ results = <<>>
    /\ hists = <<>>
    /\ output = <<>>
    /\ ExtractorIdle /\ SamplingIdle /\ CredentialIdle

\* `if df.empty: return df`, else the transactionDate column is parsed in place
AnalyzeBegin ==
    /\ apc = "call"
    /\ IF df = <<>>
       THEN apc' = "returned" /\ output' = df /\ df' = df
       ELSE apc' = "loop" /\ df' = ParseColumn(script, df) /\ output' = output
    /\ UNCHANGED <<script, vocabulary, dfAtCall, ri, results, hists, evars, svars, cvars>>

\* faulty variant: a row whose history call raises is skipped
AnalyzeRow_SkipsFailed ==
    /\ apc = "loop"
    /\ ri <= Len(df)
    /\ \E hist \in Histories :
          IF hist.kind = "raise"
          THEN UNCHANGED <<results, hists>>
          ELSE /\ results' = Append(results, RowRecord(script, df[ri], hist))
               /\ hists' = Append(hists, [request |-> HistoryRequest(script, df[ri]), answer |-> hist])
    /\ ri' = ri + 1
    /\ UNCHANGED <<script, vocabulary, df, dfAtCall, apc, output, evars, svars, cvars>>

\* one iteration of `for _, row in df.iterrows()`: the history call in its
\* try block and results.append
AnalyzeRow ==
    /\ apc = "loop"
    /\ ri <= Len(df)
    /\ \E hist \in Histories :
          /\ results' = Append(results, RowRecord(script, df[ri], hist))
          /\ hists' = Append(hists, [request |-> HistoryRequest(script, df[ri]), answer |-> hist])
    /\ ri' = ri + 1
    /\ UNCHANGED <<script, vocabulary, df, dfAtCall, apc, output, evars, svars, cvars>>

\* return pd.DataFrame(results)
AnalyzeReturn ==
    /\ apc = "loop"
    /\ ri > Len(df)
    /\ apc' = "returned"
    /\ output' = results
    /\ UNCHANGED <<script, vocabulary, df, dfAtCall, ri, results, hists, evars, svars, cvars>>

AnalyzeNext == AnalyzeBegin \/ AnalyzeRow \/ AnalyzeReturn

SpecMomentum == AnalyzeInit /\ [][AnalyzeNext]_vars

--------------------------------------------------------------------------
(* Claims about the Momentum Analyzer *)

InputFields ==
    {"ticker", "transactionDate", "transactionCode", "transactionDesc",
     "shares", "pricePerShare", "officerTitle"}

ElapsedField == IF script = "deep_dive" THEN "daysDiff" ELSE "hoursDiff"

\* the instant a point in time denotes, in seconds: an offset is subtracted,
\* a point without offset is taken as it stands
Instant(t) == t.day * SecondsPerDay + t.sec - (IF t.aware THEN t.off ELSE 0)

NoData(answer) == answer.kind = "raise" \/ answer.closes = <<>>

SameTrade(rec, row) ==
    /\ \A f \in InputFields \ {"transactionDate"} : rec[f] = row[f]
    /\ rec.transactionDate.day = row.transactionDate.day

\* C3: one MomentumResult per input record, in the order of the input,
\* whichever price-history requests fail or return no data.
C3_OneResultPerRecord ==
    apc = "returned"
        => /\ Len(output) = Len(dfAtCall)
           /\ \A i \in 1..Len(dfAtCall) : SameTrade(output[i], dfAtCall[i])

\* two different trades analysed, the history of the first one failing
C3_Witness ==
    /\ apc = "returned"
    /\ Len(dfAtCall) = 2
    /\ dfAtCall[1].ticker # dfAtCall[2].ticker
    /\ hists[1].answer.kind = "raise"
    /\ ~NoData(hists[2].answer)
    /\ Len(output) = 2

\* C4: a record whose price history is empty or raises gets return, realized
\* timestamp and elapsed time all set to the missing-value sentinel; the
\* batch is not aborted and every following record is processed.
C4_NoDataGivesSentinels ==
    /\ Len(results) = Len(hists)
    /\ \A i \in 1..Len(hists) :
          NoData(hists[i].answer)
              => /\ results[i]["return"] = NA
                 /\ results[i].realizedDate = NaT
                 /\ results[i][ElapsedField] = NA
    /\ apc \in {"call", "loop", "returned"}
    /\ (apc = "returned" /\ dfAtCall # <<>>)
          => Len(hists) = Len(dfAtCall) /\ output = results

\* a failing and an empty history, each followed by a record with prices
C4_Witness ==
    /\ apc = "returned"
    /\ Len(hists) = 2
    /\ NoData(hists[1].answer)
    /\ ~NoData(hists[2].answer)
    /\ output[1]["return"] = NA
    /\ output[2]["return"] # NA

\* the instance of the specification's example: closes 100 on 2024-01-02 and
\* 110 on 2024-01-15 for a trade dated 2024-01-02
ExampleCloses(closes) ==
    /\ Len(closes) = 2
    /\ closes[1].close = 10000 /\ closes[1].ts.day = 2
    /\ closes[2].close = 11000 /\ closes[2].ts.day = 15

\* C5: for a non-empty price history, return = (last close - first close) /
\* first close, the realized timestamp is that of the last close, and the
\* elapsed time is realized timestamp - transaction timestamp, in whole days
\* (day window) or in hours (hour window); the example gives 0.10,
\* 2024-01-15 and 13 days.
C5_ReturnRealizedElapsed ==
    \A i \in 1..Len(results) :
       LET closes == hists[i].answer.closes
           r == results[i]
           first == closes[1]
           last == closes[Len(closes)]
           trade == dfAtCall[i].transactionDate
       IN  ~NoData(hists[i].answer)
           => /\ ~r["return"].na
              /\ r["return"].den # 0
              /\ r["return"].num * first.close = (last.close - first.close) * r["return"].den
              /\ ~r[ElapsedField].na
              /\ script = "deep_dive"
                    => /\ r.realizedDate = Time("date", last.ts.day, 0, FALSE, 0)
                       /\ r.daysDiff.den = 1
                       /\ r.daysDiff.num = last.ts.day - trade.day
                       /\ ExampleCloses(closes) /\ trade.day = 2
                             => /\ 10 * r["return"].num = r["return"].den
                                /\ r.realizedDate.day = 15
                                /\ r.daysDiff = Number(13, 1)
              /\ script = "return_post"
                    => /\ r.realizedDate.type = "ts"
                       /\ ~r.realizedDate.aware
                       /\ Instant(r.realizedDate) = Instant(last.ts)
                       /\ r.hoursDiff.den > 0
                       /\ SecondsPerHour % r.hoursDiff.den = 0
                       /\ r.hoursDiff.num * (SecondsPerHour \div r.hoursDiff.den)
                             = Instant(last.ts) - Instant(trade)

\* the example in the day-window variant, and a history with an offset in the
\* hour-window variant
C5_Witness ==
    \/ /\ script = "deep_dive" /\ apc = "returned" /\ Len(hists) >= 1
       /\ ExampleCloses(hists[1].answer.closes)
       /\ dfAtCall[1].transactionDate = Time("str", 2, 0, FALSE, 0)
       /\ output[1].daysDiff = Number(13, 1)
    \/ /\ script = "return_post" /\ apc = "returned" /\ Len(hists) >= 1
       /\ ~NoData(hists[1].answer)
       /\ hists[1].answer.closes[Len(hists[1].answer.closes)].ts.aware
       /\ dfAtCall[1].transactionDate.aware
       /\ output[1].hoursDiff.num > 0

\* the fields the enrichment adds
NewFields == {"return", "realizedDate", ElapsedField}

\* C10 as claimed: the enrichment only adds fields: every field each input
\* record had keeps its value in the MomentumResult, the caller's input
\* sequence is left unchanged by the call, and only return, realizedDate and
\* the elapsed field are new.
C10_OnlyAddsFields ==
    apc = "returned"
        => /\ df = dfAtCall
           /\ Len(output) = Len(dfAtCall)
           /\ \A i \in 1..Len(dfAtCall) :
                 /\ DOMAIN output[i] = InputFields \cup NewFields
                 /\ \A f \in InputFields : output[i][f] = dfAtCall[i][f]

\* what the call turns a transactionDate into: the calendar date, time of day
\* and offset dropped (day window), or a timestamp of the same wall clock and
\* offset (hour window)
ParsedDate(t) ==
    IF script = "deep_dive"
    THEN [type |-> "date", day |-> t.day, sec |-> 0, aware |-> FALSE, off |-> 0]
    ELSE [type |-> "ts", day |-> t.day, sec |-> t.sec, aware |-> t.aware, off |-> t.off]

\* C10 as amended: every field other than transactionDate keeps its value;
\* transactionDate is replaced by its parsed form, in the result and in the
\* caller's input sequence, which the call modifies in place; only return,
\* realizedDate and the elapsed field are new.
C10_AddsFieldsAndParsesDate ==
    apc = "returned"
        => /\ Len(df) = Len(dfAtCall)
           /\ Len(output) = Len(dfAtCall)
           /\ \A i \in 1..Len(dfAtCall) :
                 /\ DOMAIN df[i] = InputFields
                 /\ DOMAIN output[i] = InputFields \cup NewFields
                 /\ \A f \in InputFields \ {"transactionDate"} :
                       output[i][f] = dfAtCall[i][f] /\ df[i][f] = dfAtCall[i][f]
                 /\ output[i].transactionDate = ParsedDate(dfAtCall[i].transactionDate)
                 /\ df[i].transactionDate = ParsedDate(dfAtCall[i].transactionDate)

\* a returned call on two records, whose input sequence no longer is what
\* the caller passed
C10_Witness ==
    /\ apc = "returned"
    /\ Len(dfAtCall) = 2
    /\ Len(output) = 2
    /\ df # dfAtCall
    /\ output[1].transactionDate # dfAtCall[1].transactionDate

--------------------------------------------------------------------------
(* Ticker universe sampling: get_random_mega_caps
   (deep_dive_into_return_post_insider_trade.py) and get_random_small_caps
   with the filter of the main block (return_post_insider_trading.py).
   The first PoolLen tickers of each pool are modelled. *)

MegaCaps ==
    <<"AAPL", "MSFT", "AMZN", "GOOGL", "BRK.B", "NVDA", "META", "TSLA", "JPM", "V",
      "UNH", "HD", "PG", "MA", "DIS", "NFLX", "PFE", "BAC", "VZ", "KO",
      "NKE", "CRM", "ORCL", "IBM", "WMT", "COST", "ADBE", "CSCO", "XOM", "CVX",
      "PEP", "ABT", "TMO", "MDT", "ACN", "LLY", "TXN", "NEE", "AVGO", "SAP">>

SmallCaps ==
    <<"AAXN", "CZR", "CRMT", "GLBE", "HZN", "IDEX", "LLEX", "MNST", "NWSA", "OTEX",
      "PNRG", "QDEL", "RGEN", "SAIC", "TALO", "UBSI", "VCRA", "WOR", "XYL", "ZION">>

default_universe(s) ==
    SubSeq(IF s = "deep_dive" THEN MegaCaps ELSE SmallCaps, 1, PoolLen)

Range(q) == {q[i] : i \in 1..Len(q)}

\* list(dict.fromkeys(universe)): the first occurrence of each ticker, in order
RECURSIVE Unique(_)
Unique(q) ==
    IF q = <<>> THEN <<>>
    ELSE LET front == Unique(SubSeq(q, 1, Len(q) - 1))
         IN  IF q[Len(q)] \in Range(front) THEN front ELSE Append(front, q[Len(q)])

\* [t for t in q if is_listed(t)]
RECURSIVE FilterListed(_, _)
FilterListed(q, isListed) ==
    IF q = <<>> THEN <<>>
    ELSE (IF Head(q) \in isListed THEN <<Head(q)>> ELSE <<>>) \o FilterListed(Tail(q), isListed)

\* what random.sample(population, k) may return: k different elements, in any
\* order (k is not negative here)
RandomSamples(population, k) ==
    {q \in [1..k -> Range(population)] : \A a, b \in 1..k : a # b => q[a] # q[b]}

\* random.sample raises ValueError when k exceeds the population
SampleRaises(population, k) == k > Len(population)

SampleInit ==
    /\ script \in BasicScripts
    /\ vocabulary = TRANSACTION_CODE_MEANINGS
    /\ sample_size \in 0..(PoolLen + 1)
    /\ listedNow \in SUBSET Range(default_universe(script))
    /\ spc = "call"
    /\ sample = <<>>
    /\ listed = <<>>
    /\ ExtractorIdle /\ AnalyzerIdle /\ CredentialIdle

\* get_random_mega_caps(sample_size)
get_random_mega_caps ==
    /\ script = "deep_dive"
    /\ spc = "call"
    /\ LET unique_universe == Unique(default_universe(script))
           listedTickers == FilterListed(unique_universe, listedNow)
       IN  IF Len(listedTickers) < sample_size
           THEN sample' = listedTickers
           ELSE sample' \in RandomSamples(listedTickers, sample_size)
    /\ spc' = "returned"
    /\ UNCHANGED <<script, vocabulary, sample_size, listedNow, listed, evars, avars, cvars>>

\* get_random_small_caps(sample_size)
get_random_small_caps ==
    /\ script = "return_post"
    /\ spc = "call"
    /\ IF SampleRaises(default_universe(script), sample_size)
       THEN spc' = "ValueError" /\ sample' = sample
       ELSE spc' = "returned" /\ sample' \in RandomSamples(default_universe(script), sample_size)
    /\ UNCHANGED <<script, vocabulary, sample_size, listedNow, listed, evars, avars, cvars>>

\* the main block of return_post_insider_trading.py: the sampled tickers are
\* filtered afterwards, and the run exits when none is listed
MainFilterListed ==
    /\ script = "return_post"
    /\ spc = "returned"
    /\ listed' = FilterListed(sample, listedNow)
    /\ spc' = IF listed' = <<>> THEN "exit" ELSE "filtered"
    /\ UNCHANGED <<script, vocabulary, sample_size, listedNow, sample, evars, avars, cvars>>

SampleNext == get_random_mega_caps \/ get_random_small_caps \/ MainFilterListed

SpecSample == SampleInit /\ [][SampleNext]_vars

\* the listed tickers of the pool
ListedPool == Range(default_universe(script)) \cap listedNow

\* C8: for both pools, a sample size larger than the number of listed tickers
\* returns exactly the listed subset, without duplicates and without error;
\* in every case the result holds only pool tickers, no duplicates and at most
\* sample_size elements.  Stated for a pool all of whose tickers are listed.
C8_SampleIsListedSubset ==
    (spc # "call" /\ ListedPool = Range(default_universe(script)))
        => /\ spc # "ValueError"
           /\ Range(sample) \subseteq Range(default_universe(script))
           /\ Cardinality(Range(sample)) = Len(sample)
           /\ Len(sample) <= sample_size
           /\ sample_size > Cardinality(ListedPool) => Range(sample) = ListedPool

--------------------------------------------------------------------------
(* The credential: what each script does with the environment before its
   main block issues network requests *)

UNSET == "<unset>"

CredentialValues == {UNSET, "", "API_KEY", "YOUR_REAL_KEY_HERE", "sk-live"}

\* os.getenv(name, dflt): no variable has the empty name
getenv(name, dflt) ==
    IF name \in DOMAIN environ /\ environ[name] # UNSET THEN environ[name] ELSE dflt

\* the name and the default each script passes to os.getenv
KeyName(s) == IF s = "return_post" THEN "" ELSE "API_KEY"
KeyDefault(s) == IF s = "return_post" THEN "" ELSE "API_KEY"

\* the network requests a main block issues, in order
NetworkPlan(s) ==
    CASE s = "deep_dive" -> <<"market-data", "filing-search", "price-history">>
      [] s = "return_post" -> <<"market-data", "filing-search", "price-history">>
      [] s = "Api_test" -> <<"filing-search">>
      [] s = "expanded_list" -> <<"filing-search", "form-13f-holdings", "form-13f-cover-pages", "form-13d-13g">>

\* the scripts whose main block exits when a request brought nothing
ExitsOnNothing(s) == s \in BasicScripts

CredentialInit ==
    /\ script \in Scripts
    /\ vocabulary = TRANSACTION_CODE_MEANINGS
    /\ environ \in [API_KEY : CredentialValues, SEC_API_KEY : {UNSET, "sk-live"}]
    /\ API_KEY = UNSET
    /\ cpc = "import"
    /\ netLog = <<>>
    /\ ExtractorIdle /\ AnalyzerIdle /\ SamplingIdle

\* module level: API_KEY = os.getenv(...), and in the two analysis scripts
\* `if not API_KEY: raise ValueError(...)`
LoadModule ==
    /\ cpc = "import"
    /\ API_KEY' = getenv(KeyName(script), KeyDefault(script))
    /\ cpc' = IF script \in BasicScripts /\ API_KEY' = "" THEN "ValueError" ELSE "main"
    /\ UNCHANGED <<script, vocabulary, environ, netLog, evars, avars, svars>>

\* the start of the main block: api_test_expanded_list.py compares the key
\* with "YOUR_REAL_KEY_HERE", the other scripts check nothing here
EnterMain ==
    /\ cpc = "main"
    /\ cpc' = IF script = "expanded_list" /\ API_KEY = "YOUR_REAL_KEY_HERE"
              THEN "ValueError" ELSE "requests"
    /\ UNCHANGED <<script, vocabulary, environ, API_KEY, netLog, evars, avars, svars>>

\* the next network request of the main block; the filing requests carry the
\* key in the Authorization header
NetworkRequest ==
    /\ cpc = "requests"
    /\ Len(netLog) < Len(NetworkPlan(script))
    /\ \E ok \in BOOLEAN :
          LET kind == NetworkPlan(script)[Len(netLog) + 1]
          IN  /\ netLog' = Append(netLog,
                     [to |-> kind,
                      authorization |-> IF kind \in {"market-data", "price-history"}
                                        THEN "" ELSE API_KEY,
                      ok |-> ok])
              /\ cpc' = IF ~ok /\ ExitsOnNothing(script) THEN "exit"
                        ELSE IF Len(netLog') = Len(NetworkPlan(script)) THEN "done"
                        ELSE cpc
    /\ UNCHANGED <<script, vocabulary, environ, API_KEY, evars, avars, svars>>

CredentialNext == LoadModule \/ EnterMain \/ NetworkRequest

SpecCredential == CredentialInit /\ [][CredentialNext]_vars

\* the credential variable is absent or holds a placeholder
NoCredential == environ.API_KEY \in {UNSET, "", "API_KEY", "YOUR_REAL_KEY_HERE"}

\* C9: in every script, with the credential variable absent or holding the
\* placeholder value the run halts with a configuration error before any
\* filing-search or price-history request is issued.
C9_NoRequestWithoutCredential ==
    NoCredential
        => \A i \in 1..Len(netLog) : netLog[i].to \notin {"filing-search", "price-history"}

--------------------------------------------------------------------------
(* The transaction-code vocabulary in use: fetch_insider_trades on responses
   whose transactions carry every code of the vocabulary, codes outside it
   and no code at all, next to the other operations of the scripts *)

CodeInputs == CodeKeys \cup {"Z", "p", "", None, ABSENT}

CodeGroups ==
    {FullGroup(Table("obj", "list", <<Tx("Common Stock", "2024-01-02", c, "100", "obj")>>), DTable(0)) :
        c \in CodeInputs}
    \cup {FullGroup(Table("obj", "list", <<Tx("Common Stock", "2024-01-02", ABSENT, "100", "absent")>>),
                    DTable(0))}

CodeResponses == UNION {[1..n -> CodeGroups] : n \in 0..MaxGroups}

VocabularyInit ==
    /\ script \in Scripts
    /\ vocabulary = TRANSACTION_CODE_MEANINGS
    /\ \/ outcome \in {"transport_error", "http_error"} /\ response = <<>>
       \/ outcome = "ok" /\ response \in CodeResponses
    /\ pc = "start"
    /\ resp = "unbound"
    /\ gi = 1
    /\ records = <<>>
    /\ result = <<>>
    /\ exc = "none"
    /\ size = MainSize(script)
    /\ payload = <<>>
    /\ AnalyzerIdle /\ SamplingIdle /\ CredentialIdle

SpecVocabulary ==
    /\ VocabularyInit \/ AnalyzeInit \/ SampleInit \/ CredentialInit
    /\ [][ExtractNext \/ AnalyzeNext \/ SampleNext \/ CredentialNext]_vars

\* the description the vocabulary gives each code
ExpectedDesc(code) ==
    CASE code = "P" -> "Purchase"
      [] code = "S" -> "Sale"
      [] code = "A" -> "Grant/Award"
      [] code = "D" -> "Disposition"
      [] code = "F" -> "Payment"
      [] code = "M" -> "Conversion/Exercise"
      [] code = "G" -> "Gift"
      [] code = "V" -> "Voluntary"
      [] code = "J" -> "Other"
      [] code = "K" -> "Equity Swap"
      [] code = "L" -> "Small Acquisition"
      [] code = "U" -> "Tender"
      [] OTHER -> "Unknown"

\* C11: every record fetch_insider_trades emits has transactionDesc equal to
\* the vocabulary's description of its transactionCode, and to "Unknown" for
\* every code outside the vocabulary, a missing code included; no operation
\* modifies the vocabulary.
C11_DescFromVocabulary ==
    /\ DOMAIN vocabulary = {"P", "S", "A", "D", "F", "M", "G", "V", "J", "K", "L", "U"}
    /\ \A c \in DOMAIN vocabulary : vocabulary[c] = ExpectedDesc(c)
    /\ script \in BasicScripts
          => /\ \A p \in 1..Len(records) :
                   records[p].transactionDesc = ExpectedDesc(records[p].transactionCode)
             /\ \A p \in 1..Len(result) :
                   result[p].transactionDesc = ExpectedDesc(result[p].transactionCode)

\* fetch_insider_trades has returned a record with a code of the vocabulary
\* and a record without a code
C11_Witness ==
    /\ script \in BasicScripts
    /\ pc = "returned"
    /\ Len(result) = 2
    /\ result[1].transactionCode = "K" /\ result[1].transactionDesc = "Equity Swap"
    /\ result[2].transactionCode = None /\ result[2].transactionDesc = "Unknown"
    /\ response[2].nonDerivativeTable.transactions.items[1].coding.kind = "absent"

--------------------------------------------------------------------------
(* The filing-search request body for caller-supplied sizes on both sides of
   the limit *)

Sizes == {1, EnhancedMainSize, SizeLimit - 1, SizeLimit, SizeLimit + 1, 2 * SizeLimit}

RequestInit ==
    /\ script \in Scripts
    /\ vocabulary = TRANSACTION_CODE_MEANINGS
    /\ \/ outcome \in {"transport_error", "http_error"} /\ response = <<>>
       \/ outcome = "ok" /\ response \in {r \in Responses : Len(r) <= 1}
    /\ pc = "start"
    /\ resp = "unbound"
    /\ gi = 1
    /\ records = <<>>
    /\ result = <<>>
    /\ exc = "none"
    /\ size \in Sizes
    /\ payload = <<>>
    /\ AnalyzerIdle /\ SamplingIdle /\ CredentialIdle

SpecRequest == RequestInit /\ [][ExtractNext]_vars

\* C12: whatever size the caller passes, the filing-search request body sent
\* by every Extractor variant carries from = 0 and a size of at most 50.
C12_SizeAtMostLimit ==
    \A p \in 1..Len(payload) : payload[p].from = 0 /\ payload[p].size <= 50

====
